---------------------------- MODULE Spec2Model ----------------------------
(***************************************************************************)
(* Interactive document editor (sejigner/sj-plugins, document-editor MCP   *)
(* server).  The module models                                             *)
(*   - web_ui.parse_markdown_paragraphs, the block segmenter, as a pure    *)
(*     operator over documents given as sequences of lines, each line a    *)
(*     sequence of one-character strings;                                  *)
(*   - server.py: the process-wide result slot and completion event, the   *)
(*     HTTP listener threads (EditorHTTPHandler) and the coroutines        *)
(*     collect_comments_impl / review_changes_impl, which the MCP server   *)
(*     runs as asyncio tasks on one event loop;                            *)
(*   - the scripts of the two pages web_ui.py generates: the comment page  *)
(*     (generate_comment_html) and the review page (generate_review_html), *)
(*     one action per event handler.                                       *)
(***************************************************************************)
EXTENDS Integers, Sequences, FiniteSets, TLC

(***************************************************************************)
(* Text helpers.  A line is a sequence of characters; a text (raw, text of *)
(* a Paragraph) is a sequence of characters that may hold NL.              *)
(***************************************************************************)
NL == "\n"

\* the characters str.strip() and the regex class \s remove / match
Whitespace == {" ", "\t", NL}

Digits == {"1"}

RECURSIVE lstrip(_)
lstrip(s) ==
  IF s # <<>> /\ Head(s) \in Whitespace THEN lstrip(Tail(s)) ELSE s

RECURSIVE rstrip(_)
rstrip(s) ==
  IF s # <<>> /\ s[Len(s)] \in Whitespace
  THEN rstrip(SubSeq(s, 1, Len(s) - 1))
  ELSE s

\* str.strip()
strip(s) == rstrip(lstrip(s))

\* str.startswith
startswith(s, p) == Len(s) >= Len(p) /\ SubSeq(s, 1, Len(p)) = p

\* the grave accent U+0060, which a TLA+ string cannot hold
Backtick == "BQ"

Fence == <<Backtick, Backtick, Backtick>>

\* '\n'.join(lines)
RECURSIVE join(_)
join(ls) ==
  IF ls = <<>> THEN <<>>
  ELSE IF Len(ls) = 1 THEN ls[1]
  ELSE ls[1] \o <<NL>> \o join(Tail(ls))

\* number of characters of t before its first NL
RECURSIVE lineLen(_)
lineLen(t) ==
  IF t # <<>> /\ Head(t) # NL THEN 1 + lineLen(Tail(t)) ELSE 0

\* str.split('\n')
RECURSIVE split(_)
split(t) ==
  LET n == lineLen(t)
  IN  IF n = Len(t) THEN <<t>>
      ELSE <<SubSeq(t, 1, n)>> \o split(SubSeq(t, n + 2, Len(t)))

\* number of leading characters of s that lie in set cs
RECURSIVE span(_, _)
span(s, cs) ==
  IF s # <<>> /\ Head(s) \in cs THEN 1 + span(Tail(s), cs) ELSE 0

drop(s, n) == SubSeq(s, n + 1, Len(s))

\* re.match(r'^(-{3,}|\*{3,}|_{3,})$', stripped)
IsHr(stripped) ==
  /\ Len(stripped) >= 3
  /\ \E c \in {"-", "*", "_"} : \A i \in 1..Len(stripped) : stripped[i] = c

\* re.match(r'^#{1,6}\s', stripped)
IsHeading(stripped) ==
  \E k \in 1..6 :
    /\ Len(stripped) >= k + 1
    /\ \A i \in 1..k : stripped[i] = "#"
    /\ stripped[k + 1] \in Whitespace

\* re.match(r'^(\s*[-*+]|\s*\d+\.)\s', line)   (on the unstripped line)
IsListItem(line) ==
  LET rest == drop(line, span(line, Whitespace))
      nd   == span(rest, Digits)
  IN  \/ /\ Len(rest) >= 2
         /\ rest[1] \in {"-", "*", "+"}
         /\ rest[2] \in Whitespace
      \/ /\ nd >= 1
         /\ Len(rest) >= nd + 2
         /\ rest[nd + 1] = "."
         /\ rest[nd + 2] \in Whitespace

\* re.sub(r'^#+\s*', '', text)   (no MULTILINE: only at the start of the text)
StripHeading(text) ==
  LET n == span(text, {"#"})
  IN  IF n = 0 THEN text
      ELSE LET r == drop(text, n) IN drop(r, span(r, Whitespace))

\* re.sub(r'^>\s?', '', text, flags=re.MULTILINE): at every line start, a '>'
\* and one following whitespace character (a newline included) are removed
RECURSIVE StripQuote(_, _)
StripQuote(t, atStart) ==
  IF t = <<>> THEN <<>>
  ELSE IF atStart /\ Head(t) = ">"
  THEN LET r == Tail(t)
       IN  IF r # <<>> /\ Head(r) \in Whitespace
           THEN StripQuote(Tail(r), Head(r) = NL)
           ELSE StripQuote(r, FALSE)
  ELSE <<Head(t)>> \o StripQuote(Tail(t), Head(t) = NL)

\* text of a "code" block: the fence lines removed (web_ui.py 47-52)
CodeText(block) ==
  LET a == IF block # <<>> /\ startswith(block[1], Fence)
           THEN Tail(block) ELSE block
      b == IF a # <<>> /\ startswith(a[Len(a)], Fence)
           THEN SubSeq(a, 1, Len(a) - 1) ELSE a
  IN  join(b)

BlockText(block, type) ==
  CASE type = "heading"    -> StripHeading(join(block))
    [] type = "code"       -> CodeText(block)
    [] type = "blockquote" -> StripQuote(join(block), TRUE)
    [] OTHER               -> join(block)

(***************************************************************************)
(* parse_markdown_paragraphs: the scan state is the record                 *)
(* [paragraphs, current_block, current_type, in_code_block, idx].          *)
(***************************************************************************)
ParseInit ==
  [paragraphs |-> <<>>, current_block |-> <<>>, current_type |-> "paragraph",
   in_code_block |-> FALSE, idx |-> 0]

\* mutant of flush: raw is given the display text
flushRawIsText(st) ==
  IF st.current_block = <<>> THEN st
  ELSE [st EXCEPT
          !.paragraphs = Append(@,
             [index      |-> st.idx,
              text       |-> strip(BlockText(st.current_block, st.current_type)),
              raw        |-> strip(BlockText(st.current_block, st.current_type)),
              block_type |-> st.current_type]),
          !.idx = @ + 1,
          !.current_block = <<>>,
          !.current_type = "paragraph"]

\* mutant of flush: the index counter is not advanced
flushKeepsIdx(st) ==
  IF st.current_block = <<>> THEN st
  ELSE [st EXCEPT
          !.paragraphs = Append(@,
             [index      |-> st.idx,
              text       |-> strip(BlockText(st.current_block, st.current_type)),
              raw        |-> join(st.current_block),
              block_type |-> st.current_type]),
          !.current_block = <<>>,
          !.current_type = "paragraph"]

\* "stripped.startswith(fence)": the line toggles in_code_block
IsFenceLine(line) == startswith(strip(line), Fence)

\* the nested function flush()
flush(st) ==
  IF st.current_block = <<>> THEN st
  ELSE [st EXCEPT
          !.paragraphs = Append(@,
             [index      |-> st.idx,
              text       |-> strip(BlockText(st.current_block, st.current_type)),
              raw        |-> join(st.current_block),
              block_type |-> st.current_type]),
          !.idx = @ + 1,
          !.current_block = <<>>,
          !.current_type = "paragraph"]

\* mutant of append: the trimmed line is buffered
appendStripped(st, line) ==
  [st EXCEPT !.current_block = Append(@, strip(line))]

\* current_block.append(line)
append(st, line) == [st EXCEPT !.current_block = Append(@, line)]

\* mutant of ParseLine: a list item joins the pending buffer without a flush
ParseLineListJoins(st, line) ==
  LET stripped == strip(line) IN
  IF startswith(stripped, Fence) THEN
       IF st.in_code_block
       THEN flush([append(st, line) EXCEPT !.in_code_block = FALSE])
       ELSE append([flush(st) EXCEPT !.in_code_block = TRUE,
                                     !.current_type = "code"], line)
  ELSE IF st.in_code_block THEN append(st, line)
  ELSE IF stripped = <<>> THEN flush(st)
  ELSE IF IsHr(stripped) THEN
       flush([append(flush(st), line) EXCEPT !.current_type = "hr"])
  ELSE IF IsHeading(stripped) THEN
       flush([append(flush(st), line) EXCEPT !.current_type = "heading"])
  ELSE IF IsListItem(line) THEN
       append([st EXCEPT !.current_type = "list"], line)
  ELSE IF startswith(stripped, <<">">>) THEN
       append(IF st.current_type # "blockquote"
              THEN [flush(st) EXCEPT !.current_type = "blockquote"] ELSE st,
              line)
  ELSE [append(IF st.current_type # "paragraph" THEN flush(st) ELSE st, line)
          EXCEPT !.current_type = "paragraph"]

\* the body of "for line in lines"
ParseLine(st, line) ==
  LET stripped == strip(line) IN
  IF startswith(stripped, Fence) THEN
       IF st.in_code_block
       THEN flush([append(st, line) EXCEPT !.in_code_block = FALSE])
       ELSE append([flush(st) EXCEPT !.in_code_block = TRUE,
                                     !.current_type = "code"], line)
  ELSE IF st.in_code_block THEN append(st, line)
  ELSE IF stripped = <<>> THEN flush(st)
  ELSE IF IsHr(stripped) THEN
       flush([append(flush(st), line) EXCEPT !.current_type = "hr"])
  ELSE IF IsHeading(stripped) THEN
       flush([append(flush(st), line) EXCEPT !.current_type = "heading"])
  ELSE IF IsListItem(line) THEN
       append(IF st.current_type # "list"
              THEN [flush(st) EXCEPT !.current_type = "list"] ELSE st, line)
  ELSE IF startswith(stripped, <<">">>) THEN
       append(IF st.current_type # "blockquote"
              THEN [flush(st) EXCEPT !.current_type = "blockquote"] ELSE st,
              line)
  ELSE [append(IF st.current_type # "paragraph" THEN flush(st) ELSE st, line)
          EXCEPT !.current_type = "paragraph"]

RECURSIVE ParseLines(_, _)
ParseLines(st, lines) ==
  IF lines = <<>> THEN st
  ELSE ParseLines(ParseLine(st, Head(lines)), Tail(lines))

\* mutant of parse_markdown_paragraphs: no flush after the loop
parseWithoutLastFlush(lines) == ParseLines(ParseInit, lines).paragraphs

\* content is given already split: lines = content.split('\n'), never empty
parse_markdown_paragraphs(lines) ==
  flush(ParseLines(ParseInit, lines)).paragraphs

(***************************************************************************)
(* Values.  Python values that reach the result slot or are returned are   *)
(* records of one shape: kind is the Python type, status / items / message *)
(* are the keys of a dict.  items abstracts the comments / decisions list. *)
(***************************************************************************)
dict(status, items, message) ==
  [kind |-> "dict", status |-> status, items |-> items, message |-> message]

None == [kind |-> "None", status |-> "", items |-> <<>>, message |-> ""]

\* a JSON number
Int42 == [kind |-> "int", status |-> "", items |-> <<>>, message |-> ""]

\* an exception leaving the coroutine
Raise(exc) == [kind |-> "raise", status |-> "", items |-> <<>>, message |-> exc]

\* the slot of a call that has not ended
NoRet == [kind |-> "pending", status |-> "", items |-> <<>>, message |-> ""]

\* first, before a well-formed submission was stored
NoFirst == [kind |-> "nothing", status |-> "", items |-> <<>>, message |-> ""]

\* first in a specification that does not record it
FirstOff == [kind |-> "off", status |-> "", items |-> <<>>, message |-> ""]

\* request bodies a client may POST to /submit
BodySubmitted == "{\"status\": \"submitted\", \"items\": [1]}"
BodyCancelled == "{\"status\": \"cancelled\", \"items\": []}"
BodyBogus     == "{\"status\": \"bogus\"}"
BodyNull      == "null"
BodyNumber    == "42"
BodyTruncated == "{\"status\": "

Bodies ==
  {BodySubmitted, BodyCancelled, BodyBogus, BodyNull, BodyNumber, BodyTruncated}

\* json.loads raises on this body
Unparseable(b) == b = BodyTruncated

\* json.loads(post_data.decode('utf-8')) on a body it accepts
json_loads(b) ==
  CASE b = BodySubmitted -> dict("submitted", <<1>>, "")
    [] b = BodyCancelled -> dict("cancelled", <<>>, "")
    [] b = BodyBogus     -> dict("bogus", <<>>, "")
    [] b = BodyNull      -> None
    [] b = BodyNumber    -> Int42

(***************************************************************************)
(* Inputs of the two operations.                                           *)
(***************************************************************************)
NumSessions == 2
MaxChanges == 1

Sessions == 1..NumSessions

\* documents, as content.split('\n')
Docs == { << <<>> >>, << <<" ">>, <<>> >>, << <<"a">> >> }

ChangeLists == { [i \in 1..n |-> i] : n \in 0..MaxChanges }

NoArg == [op |-> "", content |-> <<>>, changes |-> <<>>]

Args ==
  { [op |-> "collect_comments", content |-> d, changes |-> <<>>] : d \in Docs }
  \cup
  { [op |-> "review_changes", content |-> <<>>, changes |-> c] : c \in ChangeLists }

NoResp == [to |-> 0, req |-> "", code |-> 0, dup |-> FALSE]

\* resp in a specification that does not record the answers
RespOff == [to |-> 0, req |-> "off", code |-> 0, dup |-> FALSE]

VARIABLES
  result,         \* the global _result
  result_event,   \* the flag of the global _result_event
  writer,         \* history: the listener whose do_POST wrote result (0: a reset)
  got,            \* history, per call: its listener has read a POST to /submit
  pc,             \* per call: position of the coroutine
  arg,            \* per call: its arguments
  serve_dir,      \* per call: the scratch directory exists
  server,         \* per call: "none", "serving" (serve_forever runs), "down"
  handler,        \* per listener: position inside do_POST
  waiter,         \* per call: the executor thread in _result_event.wait(timeout)
  ret,            \* per call: the value returned, or the exception raised
  retBy,          \* history: writer of the value the call returned
  opened,         \* per call: webbrowser.open was called
  loop,           \* the coroutine the event loop is running (0: none)
  resp,           \* the last request a listener answered, and its answer
  content,        \* segmenter: the lines of the document given to it
  paragraphs,     \* segmenter: the list of Paragraph it returned
  selectedIndex,  \* comment page: the block being edited, or null
  commentMap,     \* comment page: paragraph_index -> instruction text
  commentInput,   \* comment page: the value of the textarea
  currentTab,     \* comment page: "edit" or "comments"
  submitDisabled, \* comment page: the disabled property of the Submit button
  changes,        \* review page: the changes it was generated with
  decisions,      \* review page: per change "pending", "accepted", "rejected"
  posted,         \* either page: the body of its last POST /submit
  window,         \* either page: "none", "open" or "closed"
  event,          \* history: the last event the page handled
  pending,        \* per listener: the request it has accepted and not yet
                  \* answered ("": none; "off": arrivals are not modelled)
  first           \* history: what the first well-formed POST /submit of the
                  \* running call stored

vars == <<result, result_event, writer, got, pc, arg, serve_dir, server, handler,
          waiter, ret, retBy, opened, loop, resp, content, paragraphs,
          selectedIndex, commentMap, commentInput, currentTab, submitDisabled,
          changes, decisions, posted, window, event, pending, first>>

\* the variables of the segmenter
segVars == <<content, paragraphs>>

\* the variables of server.py
serverVars == <<result, result_event, writer, got, pc, arg, serve_dir, server,
                handler, waiter, ret, retBy, opened, loop, resp, pending,
                first>>

\* the variables of the two pages
pageVars == <<selectedIndex, commentMap, commentInput, currentTab,
              submitDisabled, changes, decisions, posted, window, event>>

\* no document has been given to the segmenter
NoDocument == content = <<>> /\ paragraphs = <<>>

\* the JavaScript value null of selectedIndex
null == -1

\* no request has been sent
NoPost == [status |-> "none"]

NoEvent == [op |-> "", index |-> null, arg |-> ""]

\* the page has not been opened
NoPage ==
  /\ selectedIndex = null
  /\ commentMap = <<>>
  /\ commentInput = <<>>
  /\ currentTab = "edit"
  /\ submitDisabled = TRUE
  /\ changes = <<>>
  /\ decisions = <<>>
  /\ posted = NoPost
  /\ window = "none"
  /\ event = NoEvent

\* the state after import: no call has started.  The calls in `active` may
\* start; r is NoResp where the listeners' answers are recorded
Start(active, r) ==
  /\ result = None
  /\ result_event = FALSE
  /\ writer = 0
  /\ got = [s \in Sessions |-> FALSE]
  /\ pc = [s \in Sessions |-> IF s \in active THEN "idle" ELSE "unused"]
  /\ arg = [s \in Sessions |-> NoArg]
  /\ serve_dir = [s \in Sessions |-> FALSE]
  /\ server = [s \in Sessions |-> "none"]
  /\ handler = [s \in Sessions |-> "idle"]
  /\ waiter = [s \in Sessions |-> "none"]
  /\ ret = [s \in Sessions |-> NoRet]
  /\ retBy = [s \in Sessions |-> 0]
  /\ opened = [s \in Sessions |-> FALSE]
  /\ loop = 0
  /\ resp = r
  /\ first = IF r = RespOff THEN FirstOff ELSE NoFirst

\* the requests that reach the listeners are not modelled as arriving: a
\* listener takes any request at any time
NoArrivals == pending = [s \in Sessions |-> "off"]

\* overlapping calls; the answers of the listeners are not recorded
Init == Start(Sessions, RespOff) /\ NoArrivals /\ NoDocument /\ NoPage

\* one call at a time; every answer of its listener is recorded
InitListener == Start({1}, NoResp) /\ NoArrivals /\ NoDocument /\ NoPage

\* the local result_received, once the wait has ended
result_received(s) == waiter[s] = "T"

(***************************************************************************)
(* The coroutines collect_comments_impl and review_changes_impl.  They run *)
(* on one event loop: between its start and its await, and between its     *)
(* resumption and its end, a coroutine is interleaved with the listener    *)
(* and executor threads only, never with another coroutine.                *)
(***************************************************************************)

\* mutant of Invalid: the segmenter's result is tested with "is None"
InvalidIsNoneTest(a) ==
  IF a.op = "collect_comments" THEN FALSE ELSE a.changes = <<>>

\* "if not paragraphs" / "if not changes"
Invalid(a) ==
  IF a.op = "collect_comments"
  THEN parse_markdown_paragraphs(a.content) = <<>>
  ELSE a.changes = <<>>

ValidationError(a) ==
  IF a.op = "collect_comments"
  THEN dict("error", <<>>, "No paragraphs found in the content")
  ELSE dict("error", <<>>, "No changes provided")

\* mutant of Finally: the directory is removed on no path
FinallyKeepsDir(s) == serve_dir' = serve_dir

\* the finally clause: shutil.rmtree(serve_dir, ignore_errors=True)
Finally(s) == serve_dir' = [serve_dir EXCEPT ![s] = FALSE]

\* the coroutine ends inside the try statement, returning or raising v
Exit(s, v, by) ==
  /\ pc' = [pc EXCEPT ![s] = "done"]
  /\ ret' = [ret EXCEPT ![s] = v]
  /\ retBy' = [retBy EXCEPT ![s] = by]
  /\ loop' = 0
  /\ Finally(s)

\* the call starts: validation, then "_result = None"
Call(s, a) ==
  /\ pc[s] = "idle"
  /\ loop = 0
  /\ arg' = [arg EXCEPT ![s] = a]
  /\ IF Invalid(a)
     THEN /\ pc' = [pc EXCEPT ![s] = "done"]
          /\ ret' = [ret EXCEPT ![s] = ValidationError(a)]
          /\ UNCHANGED <<result, writer, loop, first>>
     ELSE /\ pc' = [pc EXCEPT ![s] = "clear"]
          /\ result' = None
          /\ writer' = 0
          /\ loop' = s
          /\ ret' = ret
          /\ first' = IF first = FirstOff THEN first ELSE NoFirst
  /\ UNCHANGED <<result_event, got, serve_dir, server, handler, waiter,
                 retBy, opened, resp>>
  /\ UNCHANGED <<segVars, pageVars, pending>>

\* mutant of ClearAndMkdir: the signal of the call before is not cleared
ClearAndMkdirKeepsEvent(s, ok) ==
  /\ pc[s] = "clear"
  /\ result_event' = result_event
  /\ IF ok
     THEN /\ pc' = [pc EXCEPT ![s] = "start"]
          /\ serve_dir' = [serve_dir EXCEPT ![s] = TRUE]
          /\ UNCHANGED <<ret, loop>>
     ELSE /\ pc' = [pc EXCEPT ![s] = "done"]
          /\ ret' = [ret EXCEPT ![s] = Raise("OSError")]
          /\ loop' = 0
          /\ serve_dir' = serve_dir
  /\ UNCHANGED <<result, writer, got, arg, server, handler, waiter, retBy,
                 opened, resp>>
  /\ UNCHANGED <<segVars, pageVars, pending, first>>

\* "_result_event.clear()", then serve_dir.mkdir(), which is outside the try
ClearAndMkdir(s, ok) ==
  /\ pc[s] = "clear"
  /\ result_event' = FALSE
  /\ IF ok
     THEN /\ pc' = [pc EXCEPT ![s] = "start"]
          /\ serve_dir' = [serve_dir EXCEPT ![s] = TRUE]
          /\ UNCHANGED <<ret, loop>>
     ELSE /\ pc' = [pc EXCEPT ![s] = "done"]
          /\ ret' = [ret EXCEPT ![s] = Raise("OSError")]
          /\ loop' = 0
          /\ serve_dir' = serve_dir
  /\ UNCHANGED <<result, writer, got, arg, server, handler, waiter, retBy,
                 opened, resp>>
  /\ UNCHANGED <<segVars, pageVars, pending, first>>

\* find_free_port, generate html, write_text, HTTPServer(...), thread start
StartServer(s, ok) ==
  /\ pc[s] = "start"
  /\ IF ok
     THEN /\ pc' = [pc EXCEPT ![s] = "open"]
          /\ server' = [server EXCEPT ![s] = "serving"]
          /\ UNCHANGED <<ret, retBy, loop, serve_dir>>
     ELSE /\ Exit(s, Raise("OSError"), 0)
          /\ server' = server
  /\ UNCHANGED <<result, result_event, writer, got, arg, handler, waiter,
                 opened, resp>>
  /\ UNCHANGED <<segVars, pageVars, pending, first>>

\* webbrowser.open(url), then the await of run_in_executor
OpenBrowser(s, raised) ==
  /\ pc[s] = "open"
  /\ opened' = [opened EXCEPT ![s] = TRUE]
  /\ IF raised
     THEN /\ Exit(s, Raise("Error"), 0)
          /\ waiter' = waiter
     ELSE /\ pc' = [pc EXCEPT ![s] = "waiting"]
          /\ waiter' = [waiter EXCEPT ![s] = "sched"]
          /\ loop' = 0
          /\ UNCHANGED <<ret, retBy, serve_dir>>
  /\ UNCHANGED <<result, result_event, writer, got, arg, server, handler,
                 resp>>
  /\ UNCHANGED <<segVars, pageVars, pending, first>>

\* mutant of WaitEnter: the thread blocks without testing the flag
WaitEnterBlocks(s) ==
  /\ pc[s] = "waiting"
  /\ waiter[s] = "sched"
  /\ waiter' = [waiter EXCEPT ![s] = "blocked"]
  /\ UNCHANGED <<result, result_event, writer, got, pc, arg, serve_dir,
                 server, handler, ret, retBy, opened, loop, resp>>
  /\ UNCHANGED <<segVars, pageVars, pending, first>>

\* the executor thread enters Event.wait: it returns at once when the flag is set
WaitEnter(s) ==
  /\ pc[s] = "waiting"
  /\ waiter[s] = "sched"
  /\ waiter' = [waiter EXCEPT ![s] = IF result_event THEN "T" ELSE "blocked"]
  /\ UNCHANGED <<result, result_event, writer, got, pc, arg, serve_dir,
                 server, handler, ret, retBy, opened, loop, resp>>
  /\ UNCHANGED <<segVars, pageVars, pending, first>>

\* Event.wait(timeout) gives up: it returns False
Timeout(s) ==
  /\ pc[s] = "waiting"
  /\ waiter[s] = "blocked"
  /\ waiter' = [waiter EXCEPT ![s] = "F"]
  /\ UNCHANGED <<result, result_event, writer, got, pc, arg, serve_dir,
                 server, handler, ret, retBy, opened, loop, resp>>
  /\ UNCHANGED <<segVars, pageVars, pending, first>>

\* the await completes and the event loop resumes the coroutine
Resume(s) ==
  /\ pc[s] = "waiting"
  /\ waiter[s] \in {"T", "F"}
  /\ loop = 0
  /\ pc' = [pc EXCEPT ![s] = "shutdown"]
  /\ loop' = s
  /\ UNCHANGED <<result, result_event, writer, got, arg, serve_dir, server,
                 handler, waiter, ret, retBy, opened, resp>>
  /\ UNCHANGED <<segVars, pageVars, pending, first>>

\* the task is cancelled while suspended: CancelledError is raised at the await
Cancel(s) ==
  /\ pc[s] = "waiting"
  /\ loop = 0
  /\ Exit(s, Raise("CancelledError"), 0)
  /\ UNCHANGED <<result, result_event, writer, got, arg, server, handler,
                 waiter, opened, resp>>
  /\ UNCHANGED <<segVars, pageVars, pending, first>>

\* server.shutdown(): returns when serve_forever has left its loop, which it
\* does only between two requests
Shutdown(s) ==
  /\ pc[s] = "shutdown"
  /\ handler[s] = "idle"
  /\ server' = [server EXCEPT ![s] = "down"]
  /\ pc' = [pc EXCEPT ![s] = "check"]
  /\ UNCHANGED <<result, result_event, writer, got, arg, serve_dir, handler,
                 waiter, ret, retBy, opened, loop, resp>>
  /\ UNCHANGED <<segVars, pageVars, pending, first>>

\* mutant of Check: the slot, not result_received, decides on the timeout
CheckBySlot(s) ==
  /\ pc[s] = "check"
  /\ IF result = None
     THEN Exit(s, dict("timeout", <<>>, "Timed out after 2 hours"), 0)
     ELSE /\ pc' = [pc EXCEPT ![s] = "return"]
          /\ UNCHANGED <<ret, retBy, loop, serve_dir>>
  /\ UNCHANGED <<result, result_event, writer, got, arg, server, handler,
                 waiter, opened, resp>>
  /\ UNCHANGED <<segVars, pageVars, pending, first>>

\* "if not result_received: return ..." and "if _result is None: return ..."
Check(s) ==
  /\ pc[s] = "check"
  /\ IF ~result_received(s)
     THEN Exit(s, dict("timeout", <<>>, "Timed out after 2 hours"), 0)
     ELSE IF result = None
     THEN Exit(s, dict("error", <<>>, "No result received"), 0)
     ELSE /\ pc' = [pc EXCEPT ![s] = "return"]
          /\ UNCHANGED <<ret, retBy, loop, serve_dir>>
  /\ UNCHANGED <<result, result_event, writer, got, arg, server, handler,
                 waiter, opened, resp>>
  /\ UNCHANGED <<segVars, pageVars, pending, first>>

\* "return _result": the global is read again
Return(s) ==
  /\ pc[s] = "return"
  /\ Exit(s, result, writer)
  /\ UNCHANGED <<result, result_event, writer, got, arg, server, handler,
                 waiter, opened, resp>>
  /\ UNCHANGED <<segVars, pageVars, pending, first>>

\* call_tool has handed the outcome to the transport; the task slot is free
Recycle(s) ==
  /\ pc[s] = "done"
  /\ server[s] # "serving"
  /\ pc' = [pc EXCEPT ![s] = "idle"]
  /\ arg' = [arg EXCEPT ![s] = NoArg]
  /\ server' = [server EXCEPT ![s] = "none"]
  /\ waiter' = [waiter EXCEPT ![s] = "none"]
  /\ ret' = [ret EXCEPT ![s] = NoRet]
  /\ retBy' = [retBy EXCEPT ![s] = 0]
  /\ opened' = [opened EXCEPT ![s] = FALSE]
  /\ got' = [got EXCEPT ![s] = FALSE]
  /\ UNCHANGED <<result, result_event, writer, serve_dir, handler, loop, resp>>
  /\ pending' = IF pending[s] = "off" THEN pending
                ELSE [pending EXCEPT ![s] = ""]
  /\ UNCHANGED <<segVars, pageVars, first>>

(***************************************************************************)
(* The listener thread of call s: HTTPServer.serve_forever handles one     *)
(* request at a time with EditorHTTPHandler.                               *)
(***************************************************************************)
\* a listener that serves only while the coordinator is not waiting
ListeningUnlessWaiting(s) ==
  server[s] = "serving" /\ handler[s] = "idle" /\ pc[s] # "waiting"

Listening(s) == server[s] = "serving" /\ handler[s] = "idle"

\* the handler reads the request the listener accepted
Reads(s, kind) == pending[s] \in {"off", kind}

\* the response is sent, or the connection closed
Answered(s) ==
  pending' = IF pending[s] = "off" THEN pending
             ELSE [pending EXCEPT ![s] = ""]

Answer(s, req, code, dup) ==
  resp' = IF resp = RespOff THEN resp
          ELSE [to |-> s, req |-> req, code |-> code, dup |-> dup]

\* mutant of PostSubmit: the except branch signals completion too
PostSubmitSignalsOnError(s, b) ==
  /\ Listening(s)
  /\ Reads(s, "submit")
  /\ got' = [got EXCEPT ![s] = TRUE]
  /\ IF Unparseable(b)
     THEN /\ Answer(s, "submit_bad", 500, FALSE)
          /\ result_event' = TRUE
          /\ UNCHANGED <<result, writer, handler, first>>
          /\ Answered(s)
     ELSE /\ result' = json_loads(b)
          /\ writer' = s
          /\ handler' = [handler EXCEPT ![s] = "set"]
          /\ first' = IF first = NoFirst THEN json_loads(b) ELSE first
          /\ pending' = pending
          /\ UNCHANGED <<resp, result_event>>
  /\ UNCHANGED <<pc, arg, serve_dir, server, waiter, ret, retBy, opened, loop>>
  /\ UNCHANGED <<segVars, pageVars>>

\* do_POST on /submit, up to "_result = json.loads(...)"
PostSubmit(s, b) ==
  /\ Listening(s)
  /\ Reads(s, "submit")
  /\ got' = [got EXCEPT ![s] = TRUE]
  /\ IF Unparseable(b)
     THEN /\ Answer(s, "submit_bad", 500, FALSE)
          /\ UNCHANGED <<result, writer, handler, first>>
          /\ Answered(s)
     ELSE /\ result' = json_loads(b)
          /\ writer' = s
          /\ handler' = [handler EXCEPT ![s] = "set"]
          /\ first' = IF first = NoFirst THEN json_loads(b) ELSE first
          /\ pending' = pending
          /\ resp' = resp
  /\ UNCHANGED <<result_event, pc, arg, serve_dir, server, waiter, ret, retBy,
                 opened, loop>>
  /\ UNCHANGED <<segVars, pageVars>>

\* Event.set(): the flag is set and every thread blocked in wait is woken
EventSet ==
  /\ result_event' = TRUE
  /\ waiter' = [t \in Sessions |->
                  IF waiter[t] = "blocked" THEN "T" ELSE waiter[t]]

\* mutant of PostSet: a submission after completion is rejected with 409
PostSetRejectsDuplicate(s) ==
  /\ handler[s] = "set"
  /\ IF result_event
     THEN UNCHANGED <<result_event, waiter>>
     ELSE EventSet
  /\ handler' = [handler EXCEPT ![s] = "idle"]
  /\ Answer(s, "submit", IF result_event THEN 409 ELSE 200, result_event)
  /\ UNCHANGED <<result, writer, got, pc, arg, serve_dir, server, ret,
                 retBy, opened, loop>>
  /\ Answered(s)
  /\ UNCHANGED <<segVars, pageVars, first>>

\* do_POST on /submit, from "_result_event.set()" to the 200 response
PostSet(s) ==
  /\ handler[s] = "set"
  /\ EventSet
  /\ handler' = [handler EXCEPT ![s] = "idle"]
  /\ Answer(s, "submit", 200, result_event)
  /\ UNCHANGED <<result, writer, got, pc, arg, serve_dir, server, ret,
                 retBy, opened, loop>>
  /\ Answered(s)
  /\ UNCHANGED <<segVars, pageVars, first>>

\* do_POST on /submit without a Content-Length header: int(None) raises
\* outside the try, the connection is closed without a response
PostNoLength(s) ==
  /\ Listening(s)
  /\ Reads(s, "submit_nolen")
  /\ got' = [got EXCEPT ![s] = TRUE]
  /\ Answer(s, "submit_nolen", 0, FALSE)
  /\ UNCHANGED <<result, result_event, writer, pc, arg, serve_dir, server,
                 handler, waiter, ret, retBy, opened, loop>>
  /\ Answered(s)
  /\ UNCHANGED <<segVars, pageVars, first>>

\* mutant of PostOther: a POST to any path signals completion
PostOtherSignals(s) ==
  /\ Listening(s)
  /\ Reads(s, "post_other")
  /\ Answer(s, "post_other", 404, FALSE)
  /\ result_event' = TRUE
  /\ UNCHANGED <<result, writer, got, pc, arg, serve_dir,
                 server, handler, waiter, ret, retBy, opened, loop>>
  /\ Answered(s)
  /\ UNCHANGED <<segVars, pageVars, first>>

\* do_POST on another path
PostOther(s) ==
  /\ Listening(s)
  /\ Reads(s, "post_other")
  /\ Answer(s, "post_other", 404, FALSE)
  /\ UNCHANGED <<result, result_event, writer, got, pc, arg, serve_dir,
                 server, handler, waiter, ret, retBy, opened, loop>>
  /\ Answered(s)
  /\ UNCHANGED <<segVars, pageVars, first>>

\* do_OPTIONS
Options(s) ==
  /\ Listening(s)
  /\ Reads(s, "options")
  /\ Answer(s, "options", 200, FALSE)
  /\ UNCHANGED <<result, result_event, writer, got, pc, arg, serve_dir,
                 server, handler, waiter, ret, retBy, opened, loop>>
  /\ Answered(s)
  /\ UNCHANGED <<segVars, pageVars, first>>

\* do_GET of SimpleHTTPRequestHandler on /index.html under serve_dir
Get(s) ==
  /\ Listening(s)
  /\ Reads(s, "get")
  /\ Answer(s, "get", IF serve_dir[s] THEN 200 ELSE 404, FALSE)
  /\ UNCHANGED <<result, result_event, writer, got, pc, arg, serve_dir,
                 server, handler, waiter, ret, retBy, opened, loop>>
  /\ Answered(s)
  /\ UNCHANGED <<segVars, pageVars, first>>

Next ==
  \E s \in Sessions :
    \/ \E a \in Args : Call(s, a)
    \/ \E ok \in BOOLEAN : ClearAndMkdir(s, ok)
    \/ \E ok \in BOOLEAN : StartServer(s, ok)
    \/ \E raised \in BOOLEAN : OpenBrowser(s, raised)
    \/ WaitEnter(s)
    \/ Timeout(s)
    \/ Resume(s)
    \/ Cancel(s)
    \/ Shutdown(s)
    \/ Check(s)
    \/ Return(s)
    \/ Recycle(s)
    \/ \E b \in Bodies : PostSubmit(s, b)
    \/ PostSet(s)
    \/ PostNoLength(s)
    \/ PostOther(s)
    \/ Options(s)
    \/ Get(s)

Spec == Init /\ [][Next]_vars

SpecListener == InitListener /\ [][Next]_vars

(***************************************************************************)
(* One call with the requests modelled as arriving: a request reaches the  *)
(* listening socket, waits there while the listener is busy, and is read   *)
(* and answered by the handler.  The listener runs serve_forever in a      *)
(* thread of its own, so its handler steps are taken whenever they stay    *)
(* possible; nothing obliges the page to post or the wait to end.          *)
(***************************************************************************)
Requests == {"submit", "submit_nolen", "post_other", "options", "get"}

InitLive ==
  /\ Start({1}, NoResp)
  /\ pending = [s \in Sessions |-> ""]
  /\ NoDocument
  /\ NoPage

\* a client connects to the listening socket and sends a request
Arrive(s, kind) ==
  /\ server[s] = "serving"
  /\ pending[s] = ""
  /\ pending' = [pending EXCEPT ![s] = kind]
  /\ UNCHANGED <<result, result_event, writer, got, pc, arg, serve_dir, server,
                 handler, waiter, ret, retBy, opened, loop, resp, first>>
  /\ UNCHANGED <<segVars, pageVars>>

\* one step of the listener thread of session s
Handle(s) ==
  \/ \E b \in Bodies : PostSubmit(s, b)
  \/ PostSet(s)
  \/ PostNoLength(s)
  \/ PostOther(s)
  \/ Options(s)
  \/ Get(s)

NextLive ==
  \/ Next
  \/ \E s \in Sessions : \E kind \in Requests : Arrive(s, kind)

SpecLive ==
  InitLive /\ [][NextLive]_vars /\ \A s \in Sessions : WF_vars(Handle(s))

(***************************************************************************)
(* Calls strictly one after another: call_tool is entered only when no     *)
(* other call is between its start and its end.  The listener of a call    *)
(* that has ended may still be serving.                                    *)
(***************************************************************************)
CallAlone(s, a) ==
  /\ \A t \in Sessions \ {s} : pc[t] \in {"idle", "unused", "done"}
  /\ Call(s, a)

NextSeq ==
  \E s \in Sessions :
    \/ \E a \in Args : CallAlone(s, a)
    \/ \E ok \in BOOLEAN : ClearAndMkdir(s, ok)
    \/ \E ok \in BOOLEAN : StartServer(s, ok)
    \/ \E raised \in BOOLEAN : OpenBrowser(s, raised)
    \/ WaitEnter(s)
    \/ Timeout(s)
    \/ Resume(s)
    \/ Cancel(s)
    \/ Shutdown(s)
    \/ Check(s)
    \/ Return(s)
    \/ Recycle(s)
    \/ \E b \in Bodies : PostSubmit(s, b)
    \/ PostSet(s)
    \/ PostNoLength(s)
    \/ PostOther(s)
    \/ Options(s)
    \/ Get(s)

SpecSeq == Init /\ [][NextSeq]_vars

(***************************************************************************)
(* One call at a time, and a page that posts only JSON objects to /submit. *)
(***************************************************************************)
ObjectBodies == {BodySubmitted, BodyCancelled, BodyBogus}

NextObjects ==
  \E s \in Sessions :
    \/ \E a \in Args : Call(s, a)
    \/ \E ok \in BOOLEAN : ClearAndMkdir(s, ok)
    \/ \E ok \in BOOLEAN : StartServer(s, ok)
    \/ \E raised \in BOOLEAN : OpenBrowser(s, raised)
    \/ WaitEnter(s)
    \/ Timeout(s)
    \/ Resume(s)
    \/ Cancel(s)
    \/ Shutdown(s)
    \/ Check(s)
    \/ Return(s)
    \/ Recycle(s)
    \/ \E b \in ObjectBodies : PostSubmit(s, b)
    \/ PostSet(s)
    \/ PostNoLength(s)
    \/ PostOther(s)
    \/ Options(s)
    \/ Get(s)

SpecObjects == InitListener /\ [][NextObjects]_vars

(***************************************************************************)
(* The segmenter on its own: parse_markdown_paragraphs is applied to every *)
(* document of at most MaxLines lines drawn from SegLines.                 *)
(***************************************************************************)
MaxLines == 4

\* the lines documents are built from: blank, whitespace only, text,
\* indented text, heading, indented heading, rule, list item, quote, lone
\* quote marker, fence, indented fence, numbered list item
SegLines ==
  { <<>>, <<" ">>, <<"a">>, <<" ", "a">>,
    <<"#", " ", "a">>, <<" ", "#", " ", "a">>,
    <<"-", "-", "-">>, <<"-", " ", "a">>,
    <<">", " ", "a">>, <<">">>,
    Fence, <<" ">> \o Fence, <<"1", ".", " ", "a">> }

\* a document of one line is given to the segmenter
InitSeg ==
  /\ Start({}, RespOff)
  /\ NoArrivals
  /\ NoPage
  /\ \E l \in SegLines :
       /\ content = <<l>>
       /\ paragraphs = parse_markdown_paragraphs(<<l>>)

\* the document grows by a line and is segmented again from its start
Segment(l) ==
  /\ Len(content) < MaxLines
  /\ content' = Append(content, l)
  /\ paragraphs' = parse_markdown_paragraphs(content')
  /\ UNCHANGED <<serverVars, pageVars>>

NextSeg == \E l \in SegLines : Segment(l)

SpecSeg == InitSeg /\ [][NextSeg]_vars

(***************************************************************************)
(* The comment page (generate_comment_html): the script of the page, run   *)
(* by the browser one event handler at a time.                             *)
(***************************************************************************)

\* the documents the page is generated from: one, two and three blocks
PageDocs ==
  { << <<"a">> >>,
    << <<"#", " ", "a">>, <<"b">> >>,
    << <<"#", " ", "a">>, <<"b">>, <<"-", " ", "a">> >> }

\* what the user may leave in the textarea
CommentTexts == { <<>>, <<" ">>, <<"x">>, <<"y", " ">> }

\* data-index of the paragraph blocks of the page
Indices == {paragraphs[k].index : k \in 1..Len(paragraphs)}

\* paragraphs[index]
ParagraphAt(index) == paragraphs[index + 1]

InitComment ==
  /\ Start({}, RespOff)
  /\ NoArrivals
  /\ \E d \in PageDocs :
       /\ content = d
       /\ paragraphs = parse_markdown_paragraphs(d)
  /\ selectedIndex = null
  /\ commentMap = <<>>
  /\ commentInput = <<>>
  /\ currentTab = "edit"
  /\ submitDisabled = TRUE
  /\ changes = <<>>
  /\ decisions = <<>>
  /\ posted = NoPost
  /\ window = "open"
  /\ event = NoEvent

Event(op, index, a) == event' = [op |-> op, index |-> index, arg |-> a]

\* the comment form is displayed: class "active" on #commentForm
FormShown == selectedIndex # null /\ currentTab = "edit"

\* the comment list is displayed: class "active" on #commentList
ListShown == currentTab = "comments"

\* commentMap[index] = text
Put(m, index, text) ==
  [k \in DOMAIN m \cup {index} |-> IF k = index THEN text ELSE m[k]]

\* delete commentMap[index]
Delete(m, index) == [k \in DOMAIN m \ {index} |-> m[k]]

\* a click on a paragraph block, or on an item of the comment list
selectParagraph(index) ==
  /\ window = "open"
  /\ index \in Indices
  /\ selectedIndex' = index
  /\ commentInput' = IF index \in DOMAIN commentMap THEN commentMap[index]
                                                    ELSE <<>>
  /\ currentTab' = "edit"
  /\ Event("select", index, "")
  /\ UNCHANGED <<commentMap, submitDisabled, posted, window>>
  /\ UNCHANGED <<serverVars, segVars, changes, decisions>>

\* the user edits the textarea of the form
Input(t) ==
  /\ window = "open"
  /\ FormShown
  /\ commentInput' = t
  /\ Event("input", null, "")
  /\ UNCHANGED <<selectedIndex, commentMap, currentTab, submitDisabled,
                 posted, window>>
  /\ UNCHANGED <<serverVars, segVars, changes, decisions>>

\* updateCounts(), for the map m it finds
updateCounts(m) == submitDisabled' = (Cardinality(DOMAIN m) = 0)

\* cancelEdit()
cancelEdit == selectedIndex' = null

\* mutant of saveComment: the text is stored as typed
saveCommentUntrimmed ==
  IF selectedIndex = null \/ strip(commentInput) = <<>>
  THEN UNCHANGED <<commentMap, submitDisabled, selectedIndex>>
  ELSE /\ commentMap' = Put(commentMap, selectedIndex, commentInput)
       /\ updateCounts(commentMap')
       /\ cancelEdit

\* saveComment()
saveComment ==
  IF selectedIndex = null \/ strip(commentInput) = <<>>
  THEN UNCHANGED <<commentMap, submitDisabled, selectedIndex>>
  ELSE /\ commentMap' = Put(commentMap, selectedIndex, strip(commentInput))
       /\ updateCounts(commentMap')
       /\ cancelEdit

\* a click on Save
Save ==
  /\ window = "open"
  /\ FormShown
  /\ saveComment
  /\ Event("save", selectedIndex, "")
  /\ UNCHANGED <<commentInput, currentTab, posted, window>>
  /\ UNCHANGED <<serverVars, segVars, changes, decisions>>

\* a click on Cancel in the form
CancelEdit ==
  /\ window = "open"
  /\ FormShown
  /\ cancelEdit
  /\ Event("cancelEdit", null, "")
  /\ UNCHANGED <<commentMap, commentInput, currentTab, submitDisabled,
                 posted, window>>
  /\ UNCHANGED <<serverVars, segVars, changes, decisions>>

\* mutant of deleteComment: the counts are not updated
deleteCommentStaleCount(index) ==
  /\ window = "open"
  /\ ListShown
  /\ index \in DOMAIN commentMap
  /\ commentMap' = Delete(commentMap, index)
  /\ Event("delete", index, "")
  /\ UNCHANGED <<selectedIndex, commentInput, currentTab, submitDisabled,
                 posted, window>>
  /\ UNCHANGED <<serverVars, segVars, changes, decisions>>

\* a click on the delete button of an item of the comment list
deleteComment(index) ==
  /\ window = "open"
  /\ ListShown
  /\ index \in DOMAIN commentMap
  /\ commentMap' = Delete(commentMap, index)
  /\ updateCounts(commentMap')
  /\ Event("delete", index, "")
  /\ UNCHANGED <<selectedIndex, commentInput, currentTab, posted, window>>
  /\ UNCHANGED <<serverVars, segVars, changes, decisions>>

\* a click on a tab
switchTab(tab) ==
  /\ window = "open"
  /\ currentTab' = tab
  /\ Event("switchTab", null, tab)
  /\ UNCHANGED <<selectedIndex, commentMap, commentInput, submitDisabled,
                 posted, window>>
  /\ UNCHANGED <<serverVars, segVars, changes, decisions>>

\* Object.entries(m): integer keys are enumerated in ascending order
RECURSIVE entries(_)
entries(m) ==
  IF DOMAIN m = {} THEN <<>>
  ELSE LET k == CHOOSE i \in DOMAIN m : \A j \in DOMAIN m : i <= j
       IN  <<[idx |-> k, instruction |-> m[k]]>> \o entries(Delete(m, k))

\* the entry of the payload made from an entry of the map
CommentOf(e) ==
  [paragraph_index |-> e.idx,
   paragraph_text  |-> ParagraphAt(e.idx).raw,
   instruction     |-> e.instruction]

\* x put into the list cs, which is sorted by paragraph_index, after the
\* entries that do not follow it
RECURSIVE insert(_, _)
insert(x, cs) ==
  IF cs = <<>> THEN <<x>>
  ELSE IF x.paragraph_index < Head(cs).paragraph_index THEN <<x>> \o cs
  ELSE <<Head(cs)>> \o insert(x, Tail(cs))

\* Array.prototype.sort((a, b) => a.paragraph_index - b.paragraph_index)
RECURSIVE sort(_)
sort(cs) ==
  IF cs = <<>> THEN <<>>
  ELSE insert(cs[Len(cs)], sort(SubSeq(cs, 1, Len(cs) - 1)))

\* the body submitComments() builds from the map m
CommentsBody(m) ==
  LET es == entries(m)
  IN  [status   |-> "submitted",
       comments |-> sort([k \in 1..Len(es) |-> CommentOf(es[k])])]

\* submitComments() up to its await, for the map m it finds
submitComments(m) == posted' = CommentsBody(m)

\* a click on Submit Comments, which a disabled button does not take
Submit ==
  /\ window = "open"
  /\ ~submitDisabled
  /\ submitComments(commentMap)
  /\ Event("submit", null, "")
  /\ UNCHANGED <<selectedIndex, commentMap, commentInput, currentTab,
                 submitDisabled, window>>
  /\ UNCHANGED <<serverVars, segVars, changes, decisions>>

\* a click on Cancel in the action bar: cancelAll() up to its await
CancelAll ==
  /\ window = "open"
  /\ posted' = [status |-> "cancelled", comments |-> <<>>]
  /\ Event("cancelAll", null, "")
  /\ UNCHANGED <<selectedIndex, commentMap, commentInput, currentTab,
                 submitDisabled, window>>
  /\ UNCHANGED <<serverVars, segVars, changes, decisions>>

\* keydown on the document, outside the textarea: Ctrl/Cmd+Enter or Escape
Keydown(key) ==
  /\ window = "open"
  /\ IF key = "Enter" /\ ~submitDisabled
     THEN submitComments(commentMap) /\ selectedIndex' = selectedIndex
     ELSE IF key = "Escape" /\ selectedIndex # null
     THEN cancelEdit /\ posted' = posted
     ELSE UNCHANGED <<selectedIndex, posted>>
  /\ Event("keydown", null, key)
  /\ UNCHANGED <<commentMap, commentInput, currentTab, submitDisabled,
                 window>>
  /\ UNCHANGED <<serverVars, segVars, changes, decisions>>

\* keydown in the textarea: its own handler saves and submits on
\* Ctrl/Cmd+Enter, then the event reaches the handler of the document
TextareaKeydown(key) ==
  /\ window = "open"
  /\ FormShown
  /\ IF key = "Enter"
     THEN /\ saveComment
          /\ IF ~submitDisabled'
             THEN submitComments(commentMap')
             ELSE posted' = posted
     ELSE /\ cancelEdit
          /\ UNCHANGED <<commentMap, submitDisabled, posted>>
  /\ Event("textareaKeydown", selectedIndex, key)
  /\ UNCHANGED <<commentInput, currentTab, window>>
  /\ UNCHANGED <<serverVars, segVars, changes, decisions>>

\* window.close() once the fetch of a submission or cancellation has settled
Close ==
  /\ window = "open"
  /\ posted # NoPost
  /\ window' = "closed"
  /\ Event("close", null, "")
  /\ UNCHANGED <<selectedIndex, commentMap, commentInput, currentTab,
                 submitDisabled, changes, decisions, posted>>
  /\ UNCHANGED <<serverVars, segVars>>

NextComment ==
  \/ \E index \in Indices : selectParagraph(index)
  \/ \E t \in CommentTexts : Input(t)
  \/ Save
  \/ CancelEdit
  \/ \E index \in Indices : deleteComment(index)
  \/ \E tab \in {"edit", "comments"} : switchTab(tab)
  \/ Submit
  \/ CancelAll
  \/ \E key \in {"Enter", "Escape"} : Keydown(key)
  \/ \E key \in {"Enter", "Escape"} : TextareaKeydown(key)
  \/ Close

SpecComment == InitComment /\ [][NextComment]_vars

(***************************************************************************)
(* The review page (generate_review_html).                                 *)
(***************************************************************************)
MaxItems == 3

\* the variables of the comment page that the review page does not have
commentVars == <<selectedIndex, commentMap, commentInput, currentTab,
                 submitDisabled>>

\* change records as review_changes passes them to the page
Changes ==
  { [paragraph_index |-> 2, original |-> "o2", suggested |-> "s2",
     instruction |-> "i2"],
    [paragraph_index |-> 0, original |-> "o0", suggested |-> "s0",
     instruction |-> "i0"] }

\* the lists of changes the page is generated with: never empty, in any
\* order of paragraph_index, repeats included
ChangesLists ==
  UNION { [1..n -> Changes] : n \in 1..MaxItems }

InitReview ==
  /\ Start({}, RespOff)
  /\ NoArrivals
  /\ NoDocument
  /\ selectedIndex = null
  /\ commentMap = <<>>
  /\ commentInput = <<>>
  /\ currentTab = "edit"
  /\ submitDisabled = TRUE
  /\ changes \in ChangesLists
  /\ decisions = [i \in 1..Len(changes) |-> "pending"]
  /\ posted = NoPost
  /\ window = "open"
  /\ event = NoEvent

\* mutant of setDecision: a repeated click does not go back to pending
setDecisionNoToggle(index, status) ==
  /\ window = "open"
  /\ index \in 0..(Len(changes) - 1)
  /\ decisions' = [decisions EXCEPT ![index + 1] = status]
  /\ Event("setDecision", index, status)
  /\ UNCHANGED <<changes, posted, window>>
  /\ UNCHANGED <<serverVars, segVars, commentVars>>

\* a click on Accept or Reject of card index
setDecision(index, status) ==
  /\ window = "open"
  /\ index \in 0..(Len(changes) - 1)
  /\ decisions' = [decisions EXCEPT
                     ![index + 1] = IF @ = status THEN "pending" ELSE status]
  /\ Event("setDecision", index, status)
  /\ UNCHANGED <<changes, posted, window>>
  /\ UNCHANGED <<serverVars, segVars, commentVars>>

\* decisions = decisions.map(() => status)
SetAll(op, status) ==
  /\ window = "open"
  /\ decisions' = [i \in 1..Len(decisions) |-> status]
  /\ Event(op, null, "")
  /\ UNCHANGED <<changes, posted, window>>
  /\ UNCHANGED <<serverVars, segVars, commentVars>>

acceptAll == SetAll("acceptAll", "accepted")

rejectAll == SetAll("rejectAll", "rejected")

resetAll == SetAll("resetAll", "pending")

\* mutant of ReviewBody: a change that is not rejected counts as accepted
ReviewBodyUnlessRejected ==
  [status    |-> "submitted",
   decisions |-> [i \in 1..Len(changes) |->
                    [paragraph_index |-> changes[i].paragraph_index,
                     original        |-> changes[i].original,
                     suggested       |-> changes[i].suggested,
                     accepted        |-> decisions[i] # "rejected"]]]

\* the body submitReview() builds
ReviewBody ==
  [status    |-> "submitted",
   decisions |-> [i \in 1..Len(changes) |->
                    [paragraph_index |-> changes[i].paragraph_index,
                     original        |-> changes[i].original,
                     suggested       |-> changes[i].suggested,
                     accepted        |-> decisions[i] = "accepted"]]]

\* a click on Submit Decisions: submitReview() up to its await
submitReview ==
  /\ window = "open"
  /\ posted' = ReviewBody
  /\ Event("submitReview", null, "")
  /\ UNCHANGED <<changes, decisions, window>>
  /\ UNCHANGED <<serverVars, segVars, commentVars>>

\* a click on Cancel, up to the await of cancelReview()
cancelReview ==
  /\ window = "open"
  /\ posted' = [status |-> "cancelled", decisions |-> <<>>]
  /\ Event("cancelReview", null, "")
  /\ UNCHANGED <<changes, decisions, window>>
  /\ UNCHANGED <<serverVars, segVars, commentVars>>

\* keydown on the document: Ctrl/Cmd+Enter submits, Escape cancels
ReviewKeydown(key) ==
  /\ window = "open"
  /\ posted' = IF key = "Enter"
               THEN ReviewBody
               ELSE [status |-> "cancelled", decisions |-> <<>>]
  /\ Event("reviewKeydown", null, key)
  /\ UNCHANGED <<changes, decisions, window>>
  /\ UNCHANGED <<serverVars, segVars, commentVars>>

NextReview ==
  \/ \E index \in 0..(MaxItems - 1), status \in {"accepted", "rejected"} :
       setDecision(index, status)
  \/ acceptAll
  \/ rejectAll
  \/ resetAll
  \/ submitReview
  \/ cancelReview
  \/ \E key \in {"Enter", "Escape"} : ReviewKeydown(key)
  \/ Close

SpecReview == InitReview /\ [][NextReview]_vars

(***************************************************************************)
(* Properties.                                                             *)
(***************************************************************************)

\* C1: once a listener has stored a submission and signalled completion, a
\* later submission to the same listener does not overwrite the result slot.
C1_AtMostOneWrite ==
  [][\A s \in Sessions :
       (writer = s /\ result_event /\ handler[s] = "idle" /\ writer' = s)
         => result' = result]_vars

\* C2: every well-formed POST /submit a listener has processed is answered
\* with 200, the first one and one that arrives after completion alike.
C2_IdempotentAccept == resp.req = "submit" => resp.code = 200

\* C2 witness: a submission that arrived after completion was answered 200
C2_Witness == resp.req = "submit" /\ resp.dup /\ resp.code = 200

\* a call that has passed validation and has not ended
InSession(s) == pc[s] \notin {"idle", "unused", "done"}

\* C3: sessions are isolated: (a) the start of a call (its reset of the slot
\* and of the signal) leaves the slot and the signal of a session in progress
\* as they are, and (b) the payload a call returns was POSTed to its own
\* listener.
C3_SessionIsolation ==
  /\ [](\A s \in Sessions :
          (pc[s] = "done" /\ ret[s].kind \notin {"raise", "pending"}
             /\ retBy[s] # 0) => retBy[s] = s)
  /\ [][\A s, t \in Sessions :
          (s # t /\ InSession(t) /\ pc[s] \in {"idle", "clear"}
             /\ pc'[s] # pc[s])
            => (result' = result /\ result_event' = result_event)]_vars

\* C4: a call whose listener was started and shut down and has read no
\* submission returns status "timeout", and its scratch directory is gone.
C4_Timeout ==
  \A s \in Sessions :
    (pc[s] = "done" /\ server[s] = "down" /\ ~got[s])
      => (ret[s].kind = "dict" /\ ret[s].status = "timeout" /\ ~serve_dir[s])

C6_ListenerTeardown == \A s \in Sessions : pc[s] = "done" => server[s] # "serving"

\* C7: a call that ends after the signal fired maps the slot to its outcome:
\* an empty slot gives the error "No result received", a result of status
\* "submitted" is returned with its list, one of status "cancelled" gives
\* status "cancelled".
C7_OutcomeMapping ==
  [][\A s \in Sessions :
       (pc[s] \in {"check", "return"} /\ pc'[s] = "done" /\ result_received(s))
         => /\ result = None
                 => ret'[s] = dict("error", <<>>, "No result received")
            /\ (result.kind = "dict" /\ result.status = "submitted")
                 => (ret'[s].status = "submitted" /\ ret'[s].items = result.items)
            /\ (result.kind = "dict" /\ result.status = "cancelled")
                 => ret'[s].status = "cancelled"]_vars

\* C8: whatever was POSTed, a call that returns returns a dict whose status
\* is submitted, cancelled, error or timeout.
C8_StatusDomain ==
  \A s \in Sessions :
    (pc[s] = "done" /\ ret[s].kind # "raise")
      => /\ ret[s].kind = "dict"
         /\ ret[s].status \in {"submitted", "cancelled", "error", "timeout"}

\* a document of blank lines only / an empty change list
BlankInput(a) ==
  IF a.op = "collect_comments"
  THEN \A i \in 1..Len(a.content) :
         \A j \in 1..Len(a.content[i]) : a.content[i][j] \in Whitespace
  ELSE a.changes = <<>>

\* C9: a call on a blank document or on an empty change list ends at once
\* with status "error"; no listener is started, no directory made, no browser
\* opened, and the result slot and the signal are left as they were.
C9_ValidationFastFail ==
  [][\A s \in Sessions :
       (pc[s] = "idle" /\ pc'[s] # "idle" /\ BlankInput(arg'[s]))
         => /\ pc'[s] = "done"
            /\ ret'[s].kind = "dict" /\ ret'[s].status = "error"
            /\ UNCHANGED <<result, result_event, server, serve_dir, opened>>]_vars

\* C9 witness: collect_comments on the document " \n" and review_changes on
\* [] have both ended with an error, nothing started
C9_Witness ==
  \E s, t \in Sessions :
    /\ pc[s] = "done" /\ pc[t] = "done"
    /\ arg[s].op = "collect_comments" /\ arg[s].content = << <<" ">>, <<>> >>
    /\ arg[t].op = "review_changes" /\ arg[t].changes = <<>>
    /\ ret[s].status = "error" /\ ret[t].status = "error"
    /\ server[s] = "none" /\ server[t] = "none"
    /\ ~opened[s] /\ ~opened[t]

\* C10: a POST /submit whose body is not JSON leaves the result slot and the
\* signal as they were; the coroutine and the waiting thread stay where they
\* are and the listener goes on serving.
C10_MalformedSubmission ==
  [][(resp' # resp /\ resp'.req = "submit_bad")
       => UNCHANGED <<result, result_event, writer, waiter, pc, server,
                      handler>>]_vars

\* C10 witness: the malformed body was answered and the call still waits,
\* unsignalled, its listener ready for the next request
C10_Witness ==
  \E s \in Sessions :
    /\ resp.req = "submit_bad" /\ resp.to = s
    /\ pc[s] = "waiting" /\ waiter[s] = "blocked"
    /\ ~result_event /\ result = None
    /\ Listening(s)

\* C11: when finding or binding the port, or writing the page into the
\* scratch directory, fails, the call ends by returning a dict of status
\* "error" with a message; it does not end by raising.
C11_ResourceFailureRecovered ==
  [][\A s \in Sessions :
       (pc[s] = "start" /\ pc'[s] = "done")
         => (ret'[s].kind = "dict" /\ ret'[s].status = "error"
               /\ ret'[s].message # "")]_vars

\* C12: the block at position k of the returned list (counted from 0) has
\* index k: the indices of N blocks are 0..N-1 in document order.
C12_DenseIndices ==
  \A k \in 1..Len(paragraphs) : paragraphs[k].index = k - 1

\* C12 witness: a document of four blocks, the last one with index 3
C12_Witness ==
  /\ Len(paragraphs) = 4
  /\ paragraphs[4].index = 3
  /\ paragraphs = parse_markdown_paragraphs(content)

\* '\n\n'.join(p.raw for p in ps), split into lines again
RECURSIVE RawsJoined(_)
RawsJoined(ps) ==
  IF ps = <<>> THEN <<>>
  ELSE IF Len(ps) = 1 THEN ps[1].raw
  ELSE ps[1].raw \o <<NL, NL>> \o RawsJoined(Tail(ps))

Reconstruction(ps) == split(RawsJoined(ps))

\* C13: the document rebuilt from the raw texts of the blocks, a blank line
\* between them, segments into as many blocks, with the same block types and
\* the same display texts.
C13_RoundTrip ==
  LET again == parse_markdown_paragraphs(Reconstruction(paragraphs))
  IN  /\ Len(again) = Len(paragraphs)
      /\ \A k \in 1..Len(paragraphs) :
           /\ again[k].block_type = paragraphs[k].block_type
           /\ again[k].text = paragraphs[k].text

\* C13 witness: a document whose rebuilt form differs from it (a rule right
\* under a paragraph, a closed fence right under the rule) and segments alike
C13_Witness ==
  /\ content = << <<"a">>, <<"-", "-", "-">>, Fence, Fence >>
  /\ Len(paragraphs) = 3
  /\ Reconstruction(paragraphs) # content
  /\ Len(parse_markdown_paragraphs(Reconstruction(paragraphs))) = 3

\* the positions of the fence lines of document c
FenceLines(c) == {i \in 1..Len(c) : IsFenceLine(c[i])}

\* the last fence of c opens a region that no later line closes
Unclosed(c) == Cardinality(FenceLines(c)) % 2 = 1

LastFence(c) == CHOOSE i \in FenceLines(c) : \A j \in FenceLines(c) : j <= i

IsSuffix(x, t) ==
  Len(x) <= Len(t) /\ SubSeq(t, Len(t) - Len(x) + 1, Len(t)) = x

\* C14: when the last fence of the document is never closed, the last block
\* is of type code, its raw text is every line from that fence to the end of
\* the input, and its display text ends with all the lines after the fence
\* (trimmed at both ends, as every display text is).
C14_UnclosedFence ==
  Unclosed(content) =>
    LET o    == LastFence(content)
        n    == Len(content)
        last == paragraphs[Len(paragraphs)]
    IN  /\ paragraphs # <<>>
        /\ last.block_type = "code"
        /\ last.raw = join(SubSeq(content, o, n))
        /\ IsSuffix(strip(join(SubSeq(content, o + 1, n))), last.text)

\* C14 witness: a paragraph, then a fence left open over an indented line
\* and a blank line
C14_Witness ==
  /\ content = << <<"a">>, Fence, <<" ", "a">>, <<>> >>
  /\ Len(paragraphs) = 2
  /\ paragraphs[2].block_type = "code"
  /\ paragraphs[2].raw = Fence \o <<NL, " ", "a", NL>>
  /\ paragraphs[2].text = <<"a">>

\* line i of c lies after an opening fence that no line before i has closed
InsideFence(c, i) == Cardinality({j \in FenceLines(c) : j < i}) % 2 = 1

\* the lines of c from position i on, without the blank lines outside fences
RECURSIVE KeptFrom(_, _)
KeptFrom(c, i) ==
  IF i > Len(c) THEN <<>>
  ELSE (IF strip(c[i]) = <<>> /\ ~InsideFence(c, i) THEN <<>> ELSE <<c[i]>>)
         \o KeptFrom(c, i + 1)

\* the lines of the raw texts of ps, block after block
RECURSIVE RawLines(_)
RawLines(ps) ==
  IF ps = <<>> THEN <<>> ELSE split(Head(ps).raw) \o RawLines(Tail(ps))

\* C15: the lines of the raw texts of the blocks, in index order, are the
\* lines of the input without the blank lines that lie outside fenced
\* regions: every other line is in one block, in its place.
C15_Partition == RawLines(paragraphs) = KeptFrom(content, 1)

\* C15 witness: a blank line between blocks is dropped, one inside a fence
\* is kept
C15_Witness ==
  /\ content = << <<"a">>, <<>>, Fence, <<>> >>
  /\ RawLines(paragraphs) = << <<"a">>, Fence, <<>> >>

\* C16: every block of the returned list has a display text that is not
\* empty after trimming (a buffer whose text is empty is dropped without an
\* index).
C16_NoEmptyBlock ==
  \A k \in 1..Len(paragraphs) : strip(paragraphs[k].text) # <<>>

\* C17: on the comment page the Submit button is enabled exactly when some
\* block holds a saved instruction, and a body of status "submitted" that the
\* page has posted has a comments list that is not empty.
C17_SubmitGuard ==
  window # "none" =>
    /\ ~submitDisabled <=> DOMAIN commentMap # {}
    /\ posted.status = "submitted" => posted.comments # <<>>

\* C17 witness: an instruction was saved and submitted, the page stayed
\* open, and the instruction was deleted: the button is disabled again
C17_Witness ==
  /\ window = "open"
  /\ posted.status = "submitted" /\ Len(posted.comments) = 1
  /\ event.op = "delete"
  /\ commentMap = <<>>
  /\ submitDisabled

\* the list cs has one entry per key of the map m, with the text m holds for
\* it, in strictly ascending order of paragraph_index
OneEntryPerKey(cs, m) ==
  /\ Len(cs) = Cardinality(DOMAIN m)
  /\ \A i \in DOMAIN m :
       \E k \in 1..Len(cs) :
         /\ cs[k].paragraph_index = i
         /\ cs[k].instruction = m[i]
  /\ \A k \in 1..(Len(cs) - 1) :
       cs[k].paragraph_index < cs[k + 1].paragraph_index

\* the last event was a click on Save, or Ctrl/Cmd+Enter in the textarea
SaveEvent ==
  \/ event.op = "save"
  \/ event.op = "textareaKeydown" /\ event.arg = "Enter"

\* C18: (a) a save on the selected block with a text that is not blank makes
\* that text, trimmed, the instruction of the block, replacing an earlier
\* one, and leaves the other blocks as they are; (b) a delete removes the
\* instruction of its block only; (c) no other event changes an instruction,
\* and no instruction is empty; (d) the comments list of a posted body of
\* status "submitted" has one entry per block that holds an instruction, with
\* that instruction, in strictly ascending order of paragraph_index.
C18_CommentPayload ==
  [][/\ (SaveEvent' /\ strip(commentInput) # <<>>)
          => /\ DOMAIN commentMap' = DOMAIN commentMap \cup {selectedIndex}
             /\ commentMap'[selectedIndex] = strip(commentInput)
             /\ \A k \in DOMAIN commentMap \ {selectedIndex} :
                  commentMap'[k] = commentMap[k]
     /\ event'.op = "delete"
          => /\ DOMAIN commentMap' = DOMAIN commentMap \ {event'.index}
             /\ \A k \in DOMAIN commentMap' : commentMap'[k] = commentMap[k]
     /\ (~SaveEvent' /\ event'.op # "delete") => commentMap' = commentMap
     /\ \A k \in DOMAIN commentMap' : commentMap'[k] # <<>>
     /\ ((event'.op = "submit" \/ posted' # posted)
           /\ posted'.status = "submitted")
          => OneEntryPerKey(posted'.comments, commentMap')]_vars

\* C18 witness: on the page of three blocks, block 0 holds "y" (typed with a
\* space after it) and block 2 holds "x", block 1 nothing, and the body
\* posted lists block 0, then block 2
C18_Witness ==
  /\ Len(paragraphs) = 3
  /\ DOMAIN commentMap = {0, 2}
  /\ posted.status = "submitted"
  /\ Len(posted.comments) = 2
  /\ posted.comments[1].paragraph_index = 0
  /\ posted.comments[1].instruction = <<"y">>
  /\ posted.comments[2].paragraph_index = 2
  /\ posted.comments[2].instruction = <<"x">>
  /\ posted.comments[2].paragraph_text = <<"-", " ", "a">>

\* the last event made the review page build and post its decisions
SubmitReviewEvent ==
  \/ event.op = "submitReview"
  \/ event.op = "reviewKeydown" /\ event.arg = "Enter"

\* C19: the body the review page posts on submit has status "submitted" and
\* one decision per change it was given, in the order given, each with the
\* paragraph_index, original and suggested of its change, and accepted a
\* boolean that is true exactly when the change is in state accepted.
C19_ReviewPayload ==
  SubmitReviewEvent =>
    /\ posted.status = "submitted"
    /\ Len(posted.decisions) = Len(changes)
    /\ \A k \in 1..Len(changes) :
         /\ posted.decisions[k].paragraph_index = changes[k].paragraph_index
         /\ posted.decisions[k].original = changes[k].original
         /\ posted.decisions[k].suggested = changes[k].suggested
         /\ posted.decisions[k].accepted \in BOOLEAN
         /\ posted.decisions[k].accepted <=> decisions[k] = "accepted"

\* C19 witness: the changes came for paragraph 2, then paragraph 0; the first
\* is accepted and the second pending when the page submits
C19_Witness ==
  /\ SubmitReviewEvent
  /\ Len(changes) = 2
  /\ changes[1].paragraph_index = 2 /\ changes[2].paragraph_index = 0
  /\ decisions = <<"accepted", "pending">>
  /\ posted.decisions[1].paragraph_index = 2
  /\ posted.decisions[1].accepted
  /\ ~posted.decisions[2].accepted

\* C20: a click on Accept or Reject of an item puts it in the state clicked,
\* or back in pending when it already was in that state, and leaves the
\* other items as they are; Accept All, Reject All and Reset All put every
\* item in accepted, rejected and pending.
C20_DecisionTransitions ==
  [][/\ event'.op = "setDecision"
          => LET i == event'.index + 1
                 s == event'.arg
             IN  /\ decisions'[i] = IF decisions[i] = s THEN "pending" ELSE s
                 /\ \A j \in 1..Len(decisions) :
                      j # i => decisions'[j] = decisions[j]
                 /\ Len(decisions') = Len(decisions)
     /\ event'.op = "acceptAll"
          => decisions' = [j \in 1..Len(changes) |-> "accepted"]
     /\ event'.op = "rejectAll"
          => decisions' = [j \in 1..Len(changes) |-> "rejected"]
     /\ event'.op = "resetAll"
          => decisions' = [j \in 1..Len(changes) |-> "pending"]]_vars

\* C20 witness: the last click was Accept on item 0, which is pending, so it
\* was accepted before the click; item 1 is still rejected
C20_Witness ==
  /\ event = [op |-> "setDecision", index |-> 0, arg |-> "accepted"]
  /\ decisions = <<"pending", "rejected">>

\* C21: once the wait of a call has timed out and the call has been resumed,
\* the call ends with status "timeout", whatever reaches its listener, or is
\* stored in the slot, before the listener is shut down and after.
C21_TimeoutIsFinal ==
  [][\A s \in Sessions :
       (waiter[s] = "F" /\ pc[s] \in {"shutdown", "check", "return"}
          /\ pc'[s] # pc[s])
         => /\ pc'[s] \in {"check", "done"}
            /\ pc'[s] = "done"
                 => (ret'[s].kind = "dict" /\ ret'[s].status = "timeout")]_vars

\* C21 witness: the call ended with "timeout" although its own listener
\* stored a submission, and signalled, after the wait had given up
C21_Witness ==
  \E s \in Sessions :
    /\ pc[s] = "done"
    /\ waiter[s] = "F"
    /\ ret[s].status = "timeout"
    /\ got[s] /\ writer = s /\ result.kind = "dict" /\ result_event

C23_FirstSubmissionReturned ==
  \A s \in Sessions :
    (/\ pc[s] = "done"
     /\ result_received(s)
     /\ first.kind = "dict"
     /\ ret[s] \in {json_loads(b) : b \in {BodySubmitted, BodyCancelled,
                                           BodyBogus}})
      => ret[s] = first

\* C24: a POST /submit whose body is not JSON is answered with a status
\* between 400 and 499.
C24_MalformedIsClientError ==
  resp.req = "submit_bad" => resp.code \in 400..499

\* C25: whatever a handler has stored in the result slot is a JSON object:
\* a body that is JSON but not an object is not stored.
C25_OnlyObjectsStored ==
  writer # 0 => result.kind = "dict"

\* C26: answering a GET, an OPTIONS or a POST to a path other than /submit
\* leaves the result slot, its writer and the completion signal unchanged.
C26_OtherRequestsFrame ==
  [][(resp' # resp /\ resp'.req \in {"get", "options", "post_other"})
       => UNCHANGED <<result, writer, result_event>>]_vars

\* C26 witness: a stored and signalled submission is still in the slot after
\* a POST to another path was answered with 404
C26_Witness ==
  \E s \in Sessions :
    /\ resp.to = s /\ resp.req = "post_other" /\ resp.code = 404
    /\ writer = s
    /\ result = dict("submitted", <<1>>, "")
    /\ result_event

\* C27: the display text of a code block that begins and ends with a fence
\* line (a line whose trimmed form starts with the fence marker) is the text
\* of the lines between the two, trimmed.
C27_FenceLinesExcluded ==
  \A k \in 1..Len(paragraphs) :
    LET ls == split(paragraphs[k].raw)
    IN  (/\ paragraphs[k].block_type = "code"
         /\ Len(ls) >= 2
         /\ IsFenceLine(ls[1])
         /\ IsFenceLine(ls[Len(ls)]))
          => paragraphs[k].text = strip(join(SubSeq(ls, 2, Len(ls) - 1)))

\* C28: the display text of a heading block is its line without the
\* indentation, the run of '#' and the whitespace after it.
C28_HeadingMarkerRemoved ==
  \A k \in 1..Len(paragraphs) :
    paragraphs[k].block_type = "heading"
      => paragraphs[k].text = strip(StripHeading(strip(paragraphs[k].raw)))

\* the kind of a line outside a fenced region, the tests in the order the
\* loop applies them
LineKind(line) ==
  LET stripped == strip(line)
  IN  IF IsFenceLine(line) THEN "code"
      ELSE IF stripped = <<>> THEN "blank"
      ELSE IF IsHr(stripped) THEN "hr"
      ELSE IF IsHeading(stripped) THEN "heading"
      ELSE IF IsListItem(line) THEN "list"
      ELSE IF startswith(stripped, <<">">>) THEN "blockquote"
      ELSE "paragraph"

\* the positions in c, from i on, of the lines KeptFrom keeps
RECURSIVE KeptPos(_, _)
KeptPos(c, i) ==
  IF i > Len(c) THEN <<>>
  ELSE (IF strip(c[i]) = <<>> /\ ~InsideFence(c, i) THEN <<>> ELSE <<i>>)
         \o KeptPos(c, i + 1)

\* for every line of the raw texts of ps, the place in the list of the block
\* that holds it (the first block has place k)
RECURSIVE Owners(_, _)
Owners(ps, k) ==
  IF ps = <<>> THEN <<>>
  ELSE [i \in 1..Len(split(Head(ps).raw)) |-> k] \o Owners(Tail(ps), k + 1)

\* C29: every block other than a code block holds only lines of its own
\* kind, heading and hr blocks hold one line, and two list-item lines that
\* follow one another outside fenced regions are in the same block.
C29_TypeHomogeneity ==
  /\ \A k \in 1..Len(paragraphs) :
       LET ls == split(paragraphs[k].raw)
           t  == paragraphs[k].block_type
       IN  /\ t # "code" => \A i \in 1..Len(ls) : LineKind(ls[i]) = t
           /\ t \in {"heading", "hr"} => Len(ls) = 1
  /\ LET kp  == KeptPos(content, 1)
         own == Owners(paragraphs, 1)
     IN  /\ Len(own) = Len(kp)
         /\ \A j \in 1..(Len(kp) - 1) :
              (/\ kp[j + 1] = kp[j] + 1
               /\ ~InsideFence(content, kp[j])
               /\ LineKind(content[kp[j]]) = "list"
               /\ LineKind(content[kp[j + 1]]) = "list")
                => own[j] = own[j + 1]

\* C29 witness: text, two list items and a quote, one line after the other,
\* give three blocks, the two list items together in the second
C29_Witness ==
  /\ content = << <<"a">>, <<"-", " ", "a">>, <<"1", ".", " ", "a">>,
                  <<">", " ", "a">> >>
  /\ Len(paragraphs) = 3
  /\ paragraphs[2].block_type = "list"
  /\ split(paragraphs[2].raw) = << <<"-", " ", "a">>, <<"1", ".", " ", "a">> >>

\* C30: whatever webbrowser.open does, the call goes on to wait for the
\* submission with its listener serving: the step that follows the start of
\* the listener never ends the call.
C30_OpenFailureNotFatal ==
  [][\A s \in Sessions :
       (pc[s] = "open" /\ pc'[s] # "open")
         => (pc'[s] = "waiting" /\ server'[s] = "serving")]_vars

\* the places of a call after its reset of the slot and of the signal and
\* before its end
AfterReset == {"start", "open", "waiting", "shutdown", "check", "return"}

\* C31: while a call is between its reset and its end, no step takes the
\* signal from set to unset and no step takes the slot from holding a value
\* to empty.
C31_SignalMonotone ==
  [][\A s \in Sessions :
       pc[s] \in AfterReset
         => /\ result_event => result_event'
            /\ result # None => result' # None]_vars

C33_NoStaleResult ==
  \A s \in Sessions :
    (pc[s] = "done" /\ ret[s].kind = "dict" /\ retBy[s] # 0) => retBy[s] = s

\* C34: with one call at a time and only JSON objects posted to /submit, no
\* call ends with the error "No result received", and outside the two
\* statements of the reset the slot holds a value whenever the signal is set.
C34_NoResultUnreachable ==
  /\ \A s \in Sessions : ret[s] # dict("error", <<>>, "No result received")
  /\ (result_event /\ \A s \in Sessions : pc[s] # "clear") => result # None

\* C34 witness: a call that was woken by an object posted to its listener is
\* at the test of the slot, after the shutdown
C34_Witness ==
  \E s \in Sessions :
    /\ pc[s] = "check"
    /\ result_received(s)
    /\ result_event
    /\ got[s]
    /\ writer = s
    /\ result.kind = "dict"

=============================================================================
